---- MODULE Spec2Model ----
(***************************************************************************)
(* Model of the cryptowatch REST client (package cryptowatch).             *)
(*                                                                         *)
(* The package exists in two variants that share the response unwrapper's  *)
(* structure: the typed one (request returns []byte, every endpoint        *)
(* json.Unmarshal's it into a struct) and the untyped one (request returns *)
(* interface{}, every endpoint type-asserts it).  Both are modelled.       *)
(*                                                                         *)
(* A call is followed through its steps: the endpoint formats its URL from *)
(* the route table, http.Get answers (or fails), request parses and        *)
(* classifies the answer, the endpoint decodes what request returned.      *)
(* A Go panic (a failed type assertion) ends the call in pc = "panicked":   *)
(* it unwinds to the caller of the endpoint function, and what the caller  *)
(* makes of it is not the package's.                                       *)
(***************************************************************************)
EXTENDS Integers, Sequences, FiniteSets, TLC

VARIABLES base, indexes, calls

vars == <<base, indexes, calls>>

(***************************************************************************)
(* Bounds                                                                  *)
(***************************************************************************)
\* Number of callers that may have a call in flight at the same time.
NumCalls == 2

(***************************************************************************)
(* JSON documents (the text of a response body, by its structure).         *)
(* A number n + 1/2 is written with half = TRUE, so that non-integer       *)
(* numbers exist in the model.                                             *)
(***************************************************************************)
JNull == [t |-> "null"]
JBool(b) == [t |-> "jbool", v |-> b]
JNum(n) == [t |-> "num", v |-> n, half |-> FALSE]
JHalf(n) == [t |-> "num", v |-> n, half |-> TRUE]
JStr(s) == [t |-> "str", v |-> s]
JArr(s) == [t |-> "arr", v |-> s]
JObj(f) == [t |-> "obj", v |-> f]
\* A body that is not JSON text at all (v: what was sent instead).
Malformed(s) == [t |-> "malformed", v |-> s]

NoFields == [k \in {} |-> JNull]

(***************************************************************************)
(* Go values.                                                              *)
(***************************************************************************)
\* nil: a nil interface{}, a nil []byte, a nil slice, a nil map, a nil error.
Nil == [t |-> "nil"]
GFloat(n) == [t |-> "float64", v |-> n, half |-> FALSE]
GFloatHalf(n) == [t |-> "float64", v |-> n, half |-> TRUE]
GInt(n) == [t |-> "int", v |-> n]
GString(s) == [t |-> "string", v |-> s]
GBool(b) == [t |-> "bool", v |-> b]
GSlice(s) == [t |-> "slice", v |-> s]
GMap(f) == [t |-> "map", v |-> f]
GStruct(f) == [t |-> "struct", v |-> f]
\* A non-nil []byte holding the JSON text doc.
GBytes(doc) == [t |-> "bytes", doc |-> doc]

(***************************************************************************)
(* encoding/json, as the package uses it.                                  *)
(***************************************************************************)
RECURSIVE ToInterface(_)
\* json.Unmarshal of a valid document into an interface{}: null becomes nil,
\* a number a float64, an array a []interface{}, an object a
\* map[string]interface{}.
ToInterface(j) ==
    CASE j.t = "null" -> Nil
      [] j.t = "jbool" -> GBool(j.v)
      [] j.t = "num" -> [t |-> "float64", v |-> j.v, half |-> j.half]
      [] j.t = "str" -> GString(j.v)
      [] j.t = "arr" -> GSlice([i \in DOMAIN j.v |-> ToInterface(j.v[i])])
      [] j.t = "obj" -> GMap([k \in DOMAIN j.v |-> ToInterface(j.v[k])])

\* The error json.Unmarshal returns: a *json.SyntaxError for text that is not
\* JSON, a *json.UnmarshalTypeError for a value that does not fit its target.
DecodeError(what) == [t |-> "error", kind |-> "decode", msg |-> <<<<"lit", what>>>>]

\* UnmarshalInterface losing the error of a body that is not JSON.
UnmarshalInterfaceNoError(body) ==
    IF body.t = "malformed"
    THEN [v |-> Nil, err |-> Nil]
    ELSE [v |-> ToInterface(body), err |-> Nil]

\* json.Unmarshal(body, &data) with data an interface{}: [v, err].
UnmarshalInterface(body) ==
    IF body.t = "malformed"
    THEN [v |-> Nil, err |-> DecodeError("invalid character")]
    ELSE [v |-> ToInterface(body), err |-> Nil]

RECURSIVE Marshal(_)
\* json.Marshal of a value that came out of ToInterface: the JSON text of it;
\* a nil interface is written as null.
Marshal(g) ==
    CASE g.t = "nil" -> JNull
      [] g.t = "bool" -> JBool(g.v)
      [] g.t = "float64" -> [t |-> "num", v |-> g.v, half |-> g.half]
      [] g.t = "string" -> JStr(g.v)
      [] g.t = "slice" -> JArr([i \in DOMAIN g.v |-> Marshal(g.v[i])])
      [] g.t = "map" -> JObj([k \in DOMAIN g.v |-> Marshal(g.v[k])])

\* The Go types the typed endpoints decode into.
TFloat == [k |-> "float64"]
TInt == [k |-> "int"]
TString == [k |-> "string"]
TBool == [k |-> "bool"]
TStruct(f) == [k |-> "struct", f |-> f]
TSlice(e) == [k |-> "slice", e |-> e]
TMap(e) == [k |-> "map", e |-> e]

RECURSIVE Zero(_)
\* The zero value of a Go type: what a declared variable holds.
Zero(sh) ==
    CASE sh.k = "float64" -> GFloat(0)
      [] sh.k = "int" -> GInt(0)
      [] sh.k = "string" -> GString("")
      [] sh.k = "bool" -> GBool(FALSE)
      [] sh.k = "struct" -> GStruct([f \in DOMAIN sh.f |-> Zero(sh.f[f])])
      [] sh.k = "slice" -> Nil
      [] sh.k = "map" -> Nil

RECURSIVE Unmarshal(_, _)
\* json.Unmarshal(doc, &x) with x a zero value of type sh: [v, err], v what x
\* holds afterwards.  null leaves x alone; a value that does not fit its target
\* is skipped and reported, and decoding goes on with the rest; an object's
\* unknown keys are ignored and a struct's missing keys stay zero.
Unmarshal(sh, j) ==
    CASE j.t = "null" -> [v |-> Zero(sh), err |-> FALSE]
      [] j.t # "null" /\ sh.k = "float64" ->
            IF j.t = "num"
            THEN [v |-> [t |-> "float64", v |-> j.v, half |-> j.half], err |-> FALSE]
            ELSE [v |-> Zero(sh), err |-> TRUE]
      [] j.t # "null" /\ sh.k = "int" ->
            IF j.t = "num" /\ ~j.half
            THEN [v |-> GInt(j.v), err |-> FALSE]
            ELSE [v |-> Zero(sh), err |-> TRUE]
      [] j.t # "null" /\ sh.k = "string" ->
            IF j.t = "str"
            THEN [v |-> GString(j.v), err |-> FALSE]
            ELSE [v |-> Zero(sh), err |-> TRUE]
      [] j.t # "null" /\ sh.k = "bool" ->
            IF j.t = "jbool"
            THEN [v |-> GBool(j.v), err |-> FALSE]
            ELSE [v |-> Zero(sh), err |-> TRUE]
      [] j.t # "null" /\ sh.k = "struct" ->
            IF j.t = "obj"
            THEN LET sub(f) == IF f \in DOMAIN j.v
                               THEN Unmarshal(sh.f[f], j.v[f])
                               ELSE [v |-> Zero(sh.f[f]), err |-> FALSE]
                 IN [v |-> GStruct([f \in DOMAIN sh.f |-> sub(f).v]),
                     err |-> \E f \in DOMAIN sh.f : sub(f).err]
            ELSE [v |-> Zero(sh), err |-> TRUE]
      [] j.t # "null" /\ sh.k = "slice" ->
            IF j.t = "arr"
            THEN [v |-> GSlice([i \in DOMAIN j.v |-> Unmarshal(sh.e, j.v[i]).v]),
                  err |-> \E i \in DOMAIN j.v : Unmarshal(sh.e, j.v[i]).err]
            ELSE [v |-> Zero(sh), err |-> TRUE]
      [] j.t # "null" /\ sh.k = "map" ->
            IF j.t = "obj"
            THEN [v |-> GMap([k \in DOMAIN j.v |-> Unmarshal(sh.e, j.v[k]).v]),
                  err |-> \E k \in DOMAIN j.v : Unmarshal(sh.e, j.v[k]).err]
            ELSE [v |-> Zero(sh), err |-> TRUE]

(***************************************************************************)
(* The result types.  A struct's fields are named by their json tags.      *)
(***************************************************************************)
AssetMarket ==
    TStruct([exchange |-> TString, pair |-> TString, active |-> TBool, route |-> TString])
PairData ==
    TStruct([symbol |-> TString, name |-> TString, isFiat |-> TBool, route |-> TString])
Asset ==
    TStruct([symbol |-> TString, name |-> TString, fiat |-> TBool, route |-> TString])
DetailedAsset ==
    TStruct([id |-> TInt, symbol |-> TString, name |-> TString, fiat |-> TBool,
             markets |-> TStruct([base |-> TSlice(AssetMarket),
                                  quote |-> TSlice(AssetMarket)])])
Pair ==
    TStruct([symbol |-> TString, id |-> TInt, base |-> PairData, quote |-> PairData,
             route |-> TString])
PairMarket ==
    TStruct([symbol |-> TString, id |-> TInt, base |-> PairData, quote |-> PairData,
             route |-> TString, markets |-> TSlice(AssetMarket)])
GeneralExchange ==
    TStruct([symbol |-> TString, name |-> TString, active |-> TBool, route |-> TString])
DetailedExchange ==
    TStruct([id |-> TInt, name |-> TString, active |-> TBool,
             routes |-> TStruct([markets |-> TString])])
GeneralMarket ==
    TStruct([exchange |-> TString, pair |-> TString, active |-> TBool, route |-> TString])
DetailedMarket ==
    TStruct([exchange |-> TString, pair |-> TString, active |-> TBool,
             routes |-> TStruct([price |-> TString, summary |-> TString,
                                 orderbook |-> TString, trades |-> TString,
                                 ohlc |-> TString])])
Summary ==
    TStruct([price |-> TStruct([last |-> TFloat, high |-> TFloat, low |-> TFloat,
                                change |-> TStruct([percentage |-> TFloat,
                                                    absolute |-> TFloat])]),
             volume |-> TFloat])
Trade == TSlice(TFloat)
MarketOrderBook ==
    TStruct([asks |-> TSlice(TSlice(TFloat)), bids |-> TSlice(TSlice(TFloat))])
OHLC == TMap(TSlice(TSlice(TFloat)))
AggregratePrice == TMap(TFloat)
AggregrateSummary == TMap(Summary)

(***************************************************************************)
(* Errors and what a function hands back.                                  *)
(***************************************************************************)
\* A piece of an error message: literal text, or the one character string(n)
\* makes of an int n (the character with code point n).
Lit(s) == <<"lit", s>>
Rune(n) == <<"rune", ToString(n)>>

\* string(n) for n in 1 .. 60, by code point: the control characters U+0001 to
\* U+001F (written here by name, each is one character), then the space, the
\* punctuation, the digits "0" to "9" at 48 to 57, and ":", ";", "<".
RuneChars ==
    <<
      "<U+0001>", "<U+0002>", "<U+0003>", "<U+0004>", "<U+0005>", "<U+0006>", "<U+0007>", "<U+0008>",
      "<U+0009>", "<U+000A>", "<U+000B>", "<U+000C>", "<U+000D>", "<U+000E>", "<U+000F>", "<U+0010>",
      "<U+0011>", "<U+0012>", "<U+0013>", "<U+0014>", "<U+0015>", "<U+0016>", "<U+0017>", "<U+0018>",
      "<U+0019>", "<U+001A>", "<U+001B>", "<U+001C>", "<U+001D>", "<U+001E>", "<U+001F>", " ",
      "!", "\"", "#", "$", "%", "&", "'", "(",
      ")", "*", "+", ",", "-", ".", "/", "0",
      "1", "2", "3", "4", "5", "6", "7", "8",
      "9", ":", ";", "<"
    >>

\* The text a piece stands for.
PieceText(p) ==
    IF p[1] = "rune"
    THEN RuneChars[CHOOSE n \in DOMAIN RuneChars : ToString(n) = p[2]]
    ELSE p[2]

\* The message as a string: its pieces joined by +.
RECURSIVE MessageText(_)
MessageText(msg) ==
    IF msg = <<>> THEN "" ELSE PieceText(Head(msg)) \o MessageText(Tail(msg))

\* errors.New(message)
ErrorsNew(msg) == [t |-> "error", kind |-> "errorString", msg |-> msg]
\* The error of http.Get or ioutil.ReadAll.
TransportError(what) == [t |-> "error", kind |-> "transport", msg |-> <<Lit(what)>>]

\* A function's return: request's (res, err), or a panic unwinding through it.
Return(res, err) == [res |-> res, err |-> err, panic |-> FALSE]
Panic == [res |-> Nil, err |-> Nil, panic |-> TRUE]

\* What the network made of a GET: http.Get failed, or it answered with a
\* status and reading the body failed, or it answered with a status and a body.
NetError == [t |-> "neterr"]
ReadError(status) == [t |-> "readerr", status |-> status]
Response(status, body) == [t |-> "http", status |-> status, body |-> body]

StatusOK == 200
StatusTooManyRequests == 429

(***************************************************************************)
(* request, typed variant: the response unwrapper.  reply is what the      *)
(* network made of the GET, minute what time.Now().Minute() reads.         *)
(***************************************************************************)
RateLimitMessage(minute) ==
    <<Lit("Too Many Requests. Allowance resets in "), Rune(60 - minute), Lit(" minutes.")>>

\* ErrorField reading another key of the envelope.
ErrorFieldOfMessage(results) ==
    IF "message" \in DOMAIN results /\ results["message"].t = "string"
    THEN [ok |-> TRUE, v |-> results["message"].v]
    ELSE [ok |-> FALSE, v |-> ""]

\* message := (results["error"]).(string): a missing key reads as nil, and
\* asserting string on anything but a string panics.
ErrorField(results) ==
    IF "error" \in DOMAIN results /\ results["error"].t = "string"
    THEN [ok |-> TRUE, v |-> results["error"].v]
    ELSE [ok |-> FALSE, v |-> ""]

\* ResultField reading another key of the envelope.
ResultFieldOfResults(results) ==
    IF "results" \in DOMAIN results THEN results["results"] ELSE Nil

\* results["result"]: a missing key reads as nil.
ResultField(results) ==
    IF "result" \in DOMAIN results THEN results["result"] ELSE Nil

\* request with the cases of its switch in the other order.
requestCasesSwapped(reply, minute) ==
    IF reply.t = "neterr" THEN Return(Nil, TransportError("Get"))
    ELSE IF reply.t = "readerr" THEN Return(Nil, TransportError("ReadAll"))
    ELSE LET u == UnmarshalInterface(reply.body) IN
         IF u.err # Nil THEN Return(Nil, u.err)
         ELSE IF u.v.t # "map" THEN Panic
         ELSE IF reply.status # StatusOK
              THEN IF ErrorField(u.v.v).ok
                   THEN Return(Nil, ErrorsNew(<<Lit(ErrorField(u.v.v).v)>>))
                   ELSE Panic
         ELSE IF reply.status = StatusTooManyRequests
              THEN Return(Nil, ErrorsNew(RateLimitMessage(minute)))
         ELSE Return(GBytes(Marshal(ResultField(u.v.v))), Nil)

request(reply, minute) ==
    IF reply.t = "neterr" THEN Return(Nil, TransportError("Get"))
    ELSE IF reply.t = "readerr" THEN Return(Nil, TransportError("ReadAll"))
    ELSE LET u == UnmarshalInterface(reply.body) IN
         IF u.err # Nil THEN Return(Nil, u.err)
         ELSE IF u.v.t # "map" THEN Panic
         ELSE IF reply.status = StatusTooManyRequests
              THEN Return(Nil, ErrorsNew(RateLimitMessage(minute)))
         ELSE IF reply.status # StatusOK
              THEN IF ErrorField(u.v.v).ok
                   THEN Return(Nil, ErrorsNew(<<Lit(ErrorField(u.v.v).v)>>))
                   ELSE Panic
         ELSE Return(GBytes(Marshal(ResultField(u.v.v))), Nil)

(***************************************************************************)
(* request, untyped variant: the same unwrapper, handing back the decoded  *)
(* result field itself.                                                    *)
(***************************************************************************)
requestUntyped(reply, minute) ==
    IF reply.t = "neterr" THEN Return(Nil, TransportError("Get"))
    ELSE IF reply.t = "readerr" THEN Return(Nil, TransportError("ReadAll"))
    ELSE LET u == UnmarshalInterface(reply.body) IN
         IF u.err # Nil THEN Return(Nil, u.err)
         ELSE IF u.v.t # "map" THEN Panic
         ELSE IF reply.status = StatusTooManyRequests
              THEN Return(Nil, ErrorsNew(RateLimitMessage(minute)))
         ELSE IF reply.status # StatusOK
              THEN IF ErrorField(u.v.v).ok
                   THEN Return(Nil, ErrorsNew(<<Lit(ErrorField(u.v.v).v)>>))
                   ELSE Panic
         ELSE Return(ResultField(u.v.v), u.err)

(***************************************************************************)
(* The endpoint functions, typed variant, from request's return r on.      *)
(* Each declares a zero value x of its result type and runs                *)
(*     if res != nil { err = json.Unmarshal(res, &x) }; return x, err      *)
(***************************************************************************)
Outcome(result, err) == [result |-> result, err |-> err, panic |-> FALSE]
Panicked == [result |-> Nil, err |-> Nil, panic |-> TRUE]

UnmarshalTypeError == DecodeError("cannot unmarshal into Go value")

\* UnmarshalResult taking the JSON null of an absent result for a value of the
\* wrong type.
UnmarshalResultRefusingNull(sh, r) ==
    IF r.panic THEN Panicked
    ELSE IF r.res # Nil
         THEN LET d == Unmarshal(sh, r.res.doc)
              IN Outcome(d.v, IF d.err \/ r.res.doc = JNull
                              THEN UnmarshalTypeError ELSE Nil)
         ELSE Outcome(Zero(sh), r.err)

UnmarshalResult(sh, r) ==
    IF r.panic THEN Panicked
    ELSE IF r.res # Nil
         THEN LET d == Unmarshal(sh, r.res.doc)
              IN Outcome(d.v, IF d.err THEN UnmarshalTypeError ELSE Nil)
         ELSE Outcome(Zero(sh), r.err)

\* Assets calls json.Unmarshal without assigning what it returns to err.
Assets(r) ==
    IF r.panic THEN Panicked
    ELSE IF r.res # Nil
         THEN Outcome(Unmarshal(TSlice(Asset), r.res.doc).v, r.err)
         ELSE Outcome(Zero(TSlice(Asset)), r.err)

AssetMarkets(r) == UnmarshalResult(DetailedAsset, r)
Pairs(r) == UnmarshalResult(TSlice(Pair), r)
PairMarkets(r) == UnmarshalResult(PairMarket, r)
Exchanges(r) == UnmarshalResult(TSlice(GeneralExchange), r)
Exchange(r) == UnmarshalResult(DetailedExchange, r)
Markets(r) == UnmarshalResult(TSlice(GeneralMarket), r)
Market(r) == UnmarshalResult(DetailedMarket, r)

\* MarketPrice decodes into a map[string]float64 and, when that went well,
\* returns resp["price"] (0 for a missing key or a nil map).
MarketPrice(r) ==
    IF r.panic THEN Panicked
    ELSE IF r.res # Nil
         THEN LET d == Unmarshal(TMap(TFloat), r.res.doc)
              IN IF ~d.err
                 THEN Outcome(IF d.v.t = "map" /\ "price" \in DOMAIN d.v.v
                              THEN d.v.v["price"] ELSE Zero(TFloat), Nil)
                 ELSE Outcome(Zero(TFloat), UnmarshalTypeError)
         ELSE Outcome(Zero(TFloat), r.err)

MarketSummary(r) == UnmarshalResult(Summary, r)
Trades(r) == UnmarshalResult(TSlice(Trade), r)
OrderBook(r) == UnmarshalResult(MarketOrderBook, r)
Ohlc(r) == UnmarshalResult(OHLC, r)
AggregratePrices(r) == UnmarshalResult(AggregratePrice, r)
AggregrateSummaries(r) == UnmarshalResult(AggregrateSummary, r)

(***************************************************************************)
(* The endpoint functions, untyped variant.  Each declares x (init) and    *)
(* runs   if res != nil { x = res.(T) }; return x, err                     *)
(* where the assertion panics when res is not a T.                         *)
(***************************************************************************)
AssertResult(T, init, r) ==
    IF r.panic THEN Panicked
    ELSE IF r.res # Nil
         THEN IF r.res.t = T THEN Outcome(r.res, r.err) ELSE Panicked
         ELSE Outcome(init, r.err)

AssetsUntyped(r) == AssertResult("slice", Nil, r)
\* markets := make(map[string]interface{}): an empty map, not a nil one.
AssetMarketsUntyped(r) == AssertResult("map", GMap(NoFields), r)
PairsUntyped(r) == AssertResult("slice", Nil, r)
PairMarketsUntyped(r) == AssertResult("map", Nil, r)
ExchangesUntyped(r) == AssertResult("slice", Nil, r)
ExchangeUntyped(r) == AssertResult("map", Nil, r)
MarketsUntyped(r) == AssertResult("slice", Nil, r)
MarketUntyped(r) == AssertResult("map", Nil, r)
MarketPriceUntyped(r) == AssertResult("map", Nil, r)
MarketSummaryUntyped(r) == AssertResult("map", Nil, r)
TradesUntyped(r) == AssertResult("slice", Nil, r)
OrderBookUntyped(r) == AssertResult("map", Nil, r)
OhlcUntyped(r) == AssertResult("map", Nil, r)
AggregratePricesUntyped(r) == AssertResult("map", Nil, r)
AggregrateSummariesUntyped(r) == AssertResult("map", Nil, r)

(***************************************************************************)
(* The route table and the URL each endpoint asks for.                     *)
(* A format string is the sequence of its literal runs and its %v verbs.   *)
(***************************************************************************)
Verb == "%v"

BaseURL == "https://api.cryptowat.ch/"

\* var indexes = map[string]string{...}, evaluated once with base.
Indexes(b) ==
    [Assets |-> <<b \o "assets">>,
     Asset |-> <<b \o "assets/", Verb>>,
     Pairs |-> <<b \o "pairs">>,
     Pair |-> <<b \o "pairs/", Verb>>,
     Exchanges |-> <<b \o "exchanges">>,
     Exchange |-> <<b \o "exchanges/", Verb>>,
     Markets |-> <<b \o "markets">>,
     Market |-> <<b \o "markets/", Verb, "/", Verb>>,
     MarketPrice |-> <<b \o "markets/", Verb, "/", Verb, "/price">>,
     MarketSummary |-> <<b \o "markets/", Verb, "/", Verb, "/summary">>,
     MarketTrades |-> <<b \o "markets/", Verb, "/", Verb, "/trades">>,
     MarketOrderBook |-> <<b \o "markets/", Verb, "/", Verb, "/orderbook">>,
     MarketOHLC |-> <<b \o "markets/", Verb, "/", Verb, "/ohlc">>,
     AggregratePrices |-> <<b \o "markets/prices">>,
     AggregrateSummaries |-> <<b \o "markets/summaries">>]

RECURSIVE Sprintf(_, _)
\* fmt.Sprintf(format, args...) for string arguments: each %v takes the next
\* argument as it is; a verb without an argument and arguments without a verb
\* are written out as fmt writes them.
Sprintf(format, args) ==
    IF format = <<>>
    THEN IF args = <<>> THEN "" ELSE "%!(EXTRA string)"
    ELSE IF Head(format) = Verb
         THEN IF args = <<>>
              THEN "%!v(MISSING)" \o Sprintf(Tail(format), args)
              ELSE Head(args) \o Sprintf(Tail(format), Tail(args))
         ELSE Head(format) \o Sprintf(Tail(format), args)

RECURSIVE Join(_)
\* A format string used as it is, without fmt.
Join(format) == IF format = <<>> THEN "" ELSE Head(format) \o Join(Tail(format))

Endpoints ==
    {"Assets", "AssetMarkets", "Pairs", "PairMarkets", "Exchanges", "Exchange",
     "Markets", "Market", "MarketPrice", "MarketSummary", "Trades", "OrderBook",
     "Ohlc", "AggregratePrices", "AggregrateSummaries"}

Variants == {"typed", "untyped"}

\* IndexKey with Trades reading the key of MarketPrice and AssetMarkets that of
\* Assets.
IndexKeyCopied(ep) ==
    CASE ep = "Assets" -> "Assets"
      [] ep = "AssetMarkets" -> "Assets"
      [] ep = "Pairs" -> "Pairs"
      [] ep = "PairMarkets" -> "Pair"
      [] ep = "Exchanges" -> "Exchanges"
      [] ep = "Exchange" -> "Exchange"
      [] ep = "Markets" -> "Markets"
      [] ep = "Market" -> "Market"
      [] ep = "MarketPrice" -> "MarketPrice"
      [] ep = "MarketSummary" -> "MarketSummary"
      [] ep = "Trades" -> "MarketPrice"
      [] ep = "OrderBook" -> "MarketOrderBook"
      [] ep = "Ohlc" -> "MarketOHLC"
      [] ep = "AggregratePrices" -> "AggregratePrices"
      [] ep = "AggregrateSummaries" -> "AggregrateSummaries"

\* The key of indexes each endpoint function reads.
IndexKey(ep) ==
    CASE ep = "Assets" -> "Assets"
      [] ep = "AssetMarkets" -> "Asset"
      [] ep = "Pairs" -> "Pairs"
      [] ep = "PairMarkets" -> "Pair"
      [] ep = "Exchanges" -> "Exchanges"
      [] ep = "Exchange" -> "Exchange"
      [] ep = "Markets" -> "Markets"
      [] ep = "Market" -> "Market"
      [] ep = "MarketPrice" -> "MarketPrice"
      [] ep = "MarketSummary" -> "MarketSummary"
      [] ep = "Trades" -> "MarketTrades"
      [] ep = "OrderBook" -> "MarketOrderBook"
      [] ep = "Ohlc" -> "MarketOHLC"
      [] ep = "AggregratePrices" -> "AggregratePrices"
      [] ep = "AggregrateSummaries" -> "AggregrateSummaries"

\* The endpoint functions without parameters pass indexes[key] to request as it
\* is; the others pass fmt.Sprintf(indexes[key], args...).
NoParams == {"Assets", "Pairs", "Exchanges", "Markets", "AggregratePrices",
             "AggregrateSummaries"}

URL(ep, args, idx) ==
    IF ep \in NoParams THEN Join(idx[IndexKey(ep)]) ELSE Sprintf(idx[IndexKey(ep)], args)

\* The rest of an endpoint function, from request's return on.
Endpoint(ep, variant, r) ==
    IF variant = "typed"
    THEN CASE ep = "Assets" -> Assets(r)
           [] ep = "AssetMarkets" -> AssetMarkets(r)
           [] ep = "Pairs" -> Pairs(r)
           [] ep = "PairMarkets" -> PairMarkets(r)
           [] ep = "Exchanges" -> Exchanges(r)
           [] ep = "Exchange" -> Exchange(r)
           [] ep = "Markets" -> Markets(r)
           [] ep = "Market" -> Market(r)
           [] ep = "MarketPrice" -> MarketPrice(r)
           [] ep = "MarketSummary" -> MarketSummary(r)
           [] ep = "Trades" -> Trades(r)
           [] ep = "OrderBook" -> OrderBook(r)
           [] ep = "Ohlc" -> Ohlc(r)
           [] ep = "AggregratePrices" -> AggregratePrices(r)
           [] ep = "AggregrateSummaries" -> AggregrateSummaries(r)
    ELSE CASE ep = "Assets" -> AssetsUntyped(r)
           [] ep = "AssetMarkets" -> AssetMarketsUntyped(r)
           [] ep = "Pairs" -> PairsUntyped(r)
           [] ep = "PairMarkets" -> PairMarketsUntyped(r)
           [] ep = "Exchanges" -> ExchangesUntyped(r)
           [] ep = "Exchange" -> ExchangeUntyped(r)
           [] ep = "Markets" -> MarketsUntyped(r)
           [] ep = "Market" -> MarketUntyped(r)
           [] ep = "MarketPrice" -> MarketPriceUntyped(r)
           [] ep = "MarketSummary" -> MarketSummaryUntyped(r)
           [] ep = "Trades" -> TradesUntyped(r)
           [] ep = "OrderBook" -> OrderBookUntyped(r)
           [] ep = "Ohlc" -> OhlcUntyped(r)
           [] ep = "AggregratePrices" -> AggregratePricesUntyped(r)
           [] ep = "AggregrateSummaries" -> AggregrateSummariesUntyped(r)

\* request as the variant declares it.
Request(variant, reply, minute) ==
    IF variant = "typed" THEN request(reply, minute) ELSE requestUntyped(reply, minute)

(***************************************************************************)
(* What the callers pass and what the server may answer.                   *)
(***************************************************************************)
\* "%v/x": an argument is put in as it is, whatever it holds.
AssetNames == {"btc", "eth", "%v/x"}
PairNames == {"ethbtc", "btcusd"}
ExchangeNames == {"gdax", "kraken"}

\* The arguments of each endpoint function, in the order it declares them.
Args(ep) ==
    CASE ep \in NoParams -> {<<>>}
      [] ep = "AssetMarkets" -> {<<a>> : a \in AssetNames}
      [] ep = "PairMarkets" -> {<<p>> : p \in PairNames}
      [] ep = "Exchange" -> {<<e>> : e \in ExchangeNames}
      [] OTHER -> {<<e, p>> : e \in ExchangeNames, p \in PairNames}

\* time.Now().Minute()
Minutes == 0 .. 59

Statuses == {200, 201, 404, 429, 500}

\* Payloads of the shape the API documents for each endpoint.
AssetMarketJSON ==
    JObj([exchange |-> JStr("gdax"), pair |-> JStr("btcusd"), active |-> JBool(TRUE),
          route |-> JStr("/markets/gdax/btcusd")])
PairDataJSON(sym) ==
    JObj([symbol |-> JStr(sym), name |-> JStr("name of " \o sym), isFiat |-> JBool(FALSE),
          route |-> JStr("/assets/" \o sym)])
SummaryJSON ==
    JObj([price |-> JObj([last |-> JHalf(6321), high |-> JNum(6400), low |-> JNum(6200),
                          change |-> JObj([percentage |-> JHalf(0),
                                           absolute |-> JNum(30)])]),
          volume |-> JHalf(1200)])

Sample(ep) ==
    CASE ep = "Assets" ->
            JArr(<<JObj([symbol |-> JStr("btc"), name |-> JStr("Bitcoin"),
                         fiat |-> JBool(FALSE), route |-> JStr("/assets/btc")]),
                   JObj([symbol |-> JStr("usd"), name |-> JStr("Dollar"),
                         fiat |-> JBool(TRUE), route |-> JStr("/assets/usd")])>>)
      [] ep = "AssetMarkets" ->
            JObj([id |-> JNum(60), symbol |-> JStr("btc"), name |-> JStr("Bitcoin"),
                  fiat |-> JBool(FALSE),
                  markets |-> JObj([base |-> JArr(<<AssetMarketJSON>>),
                                    quote |-> JArr(<<>>)])])
      [] ep = "Pairs" ->
            JArr(<<JObj([symbol |-> JStr("ethbtc"), id |-> JNum(7),
                         base |-> PairDataJSON("eth"), quote |-> PairDataJSON("btc"),
                         route |-> JStr("/pairs/ethbtc")])>>)
      [] ep = "PairMarkets" ->
            JObj([symbol |-> JStr("ethbtc"), id |-> JNum(7),
                  base |-> PairDataJSON("eth"), quote |-> PairDataJSON("btc"),
                  route |-> JStr("/pairs/ethbtc"),
                  markets |-> JArr(<<AssetMarketJSON>>)])
      [] ep = "Exchanges" ->
            JArr(<<JObj([symbol |-> JStr("gdax"), name |-> JStr("GDAX"),
                         active |-> JBool(TRUE), route |-> JStr("/exchanges/gdax")])>>)
      [] ep = "Exchange" ->
            JObj([id |-> JNum(3), name |-> JStr("GDAX"), active |-> JBool(TRUE),
                  routes |-> JObj([markets |-> JStr("/markets/gdax")])])
      [] ep = "Markets" ->
            JArr(<<AssetMarketJSON>>)
      [] ep = "Market" ->
            JObj([exchange |-> JStr("gdax"), pair |-> JStr("ethbtc"),
                  active |-> JBool(TRUE),
                  routes |-> JObj([price |-> JStr("/price"), summary |-> JStr("/summary"),
                                   orderbook |-> JStr("/orderbook"),
                                   trades |-> JStr("/trades"), ohlc |-> JStr("/ohlc")])])
      [] ep = "MarketPrice" -> JObj([price |-> JHalf(6321)])
      [] ep = "MarketSummary" -> SummaryJSON
      [] ep = "Trades" ->
            JArr(<<JArr(<<JNum(1), JNum(1500000000), JNum(6300), JHalf(0)>>),
                   JArr(<<JNum(2), JNum(1500000001), JHalf(6300), JNum(2)>>)>>)
      [] ep = "OrderBook" ->
            JObj([asks |-> JArr(<<JArr(<<JNum(6325), JHalf(1)>>),
                                  JArr(<<JNum(6326), JNum(4)>>)>>),
                  bids |-> JArr(<<JArr(<<JNum(6310), JHalf(0)>>)>>)])
      [] ep = "Ohlc" ->
            JObj("60" :> JArr(<<JArr(<<JNum(1500000000), JNum(10), JNum(12), JNum(9),
                                      JNum(11), JHalf(100)>>)>>)
                 @@ "180" :> JArr(<<>>))
      [] ep = "AggregratePrices" ->
            JObj("gdax:ethbtc" :> JHalf(6321) @@ "kraken:btcusd" :> JNum(7))
      [] ep = "AggregrateSummaries" ->
            JObj("gdax:ethbtc" :> SummaryJSON)

\* Payloads no endpoint documents: scalars, fields of the wrong type.
OddPayloads ==
    {JNum(5), JStr("soon"), JBool(TRUE), JArr(<<JNum(1), JNum(2)>>),
     JObj([price |-> JStr("6321.5")]),
     JObj([symbol |-> JStr("btc"), id |-> JStr("sixty")]),
     JObj([asks |-> JArr(<<JArr(<<JNum(6325), JStr("1.2")>>)>>), bids |-> JNum(0)])}

\* Payloads of MarketPrice with other prices, 0 among them.
PricePayloads == {JObj([price |-> x]) : x \in {JHalf(6321), JNum(7), JNum(0)}}

Payloads == {Sample(ep) : ep \in Endpoints} \cup PricePayloads \cup OddPayloads

\* Bodies that are JSON objects: envelopes with and without result and error.
ObjectBodies ==
    {JObj([result |-> p]) : p \in Payloads}
    \cup {JObj([error |-> JStr("foo")]), JObj([error |-> JStr("")]),
          JObj([error |-> JNum(42)]), JObj([error |-> JNull]),
          JObj([error |-> JArr(<<JStr("foo")>>)]),
          JObj(NoFields), JObj([result |-> JNull]),
          JObj([error |-> JStr("foo"), result |-> Sample("MarketPrice")]),
          JObj([error |-> JStr("bar"), result |-> Sample("Trades")])}

\* Bodies that are JSON, but no object.
NonObjectBodies ==
    {JNull, JBool(FALSE), JNum(503), JStr("Service Unavailable"),
     JArr(<<JObj([error |-> JStr("foo")])>>), JArr(<<>>)}

\* Bodies that are not JSON.
MalformedBodies == {Malformed(""), Malformed("<html>Bad Gateway</html>"),
                    Malformed("{\"result\": ")}

Bodies == ObjectBodies \cup NonObjectBodies \cup MalformedBodies

Replies ==
    {NetError} \cup {ReadError(st) : st \in Statuses}
    \cup {Response(st, b) : st \in Statuses, b \in Bodies}

(***************************************************************************)
(* State: the package's variables and each caller's call in flight.        *)
(***************************************************************************)
Callers == 1 .. NumCalls

Idle ==
    [pc |-> "idle", ep |-> "", variant |-> "", args |-> <<>>, url |-> "",
     reply |-> Nil, ret |-> Nil, out |-> Nil]

Init ==
    /\ base = BaseURL
    /\ indexes = Indexes(base)
    /\ calls = [c \in Callers |-> Idle]

\* Call keeping the URL it made in the route table.
CallCachingURL(c, eps, variants) ==
    /\ calls[c].pc = "idle"
    /\ \E ep \in eps, variant \in variants :
         \E args \in Args(ep) :
            /\ calls' = [calls EXCEPT ![c] =
                            [Idle EXCEPT !.pc = "get", !.ep = ep, !.variant = variant,
                                         !.args = args,
                                         !.url = URL(ep, args, indexes)]]
            /\ indexes' = [indexes EXCEPT ![IndexKey(ep)] = <<URL(ep, args, indexes)>>]
    /\ UNCHANGED base

\* A caller calls an endpoint function, which makes the URL it will ask for.
Call(c, eps, variants) ==
    /\ calls[c].pc = "idle"
    /\ \E ep \in eps, variant \in variants :
         \E args \in Args(ep) :
            calls' = [calls EXCEPT ![c] =
                         [Idle EXCEPT !.pc = "get", !.ep = ep, !.variant = variant,
                                      !.args = args,
                                      !.url = URL(ep, args, indexes)]]
    /\ UNCHANGED <<base, indexes>>

\* http.Get(url) and ioutil.ReadAll(resp.Body): the network answers.
Get(c, replies) ==
    /\ calls[c].pc = "get"
    /\ \E reply \in replies :
         calls' = [calls EXCEPT ![c].pc = "unwrap", ![c].reply = reply]
    /\ UNCHANGED <<base, indexes>>

\* request works on the answer and returns (or panics).
Unwrap(c, minutes) ==
    /\ calls[c].pc = "unwrap"
    /\ \E minute \in minutes :
         calls' = [calls EXCEPT ![c].pc = "decode",
                                ![c].ret = Request(calls[c].variant, calls[c].reply, minute)]
    /\ UNCHANGED <<base, indexes>>

\* The endpoint function works on what request returned, and returns.
Decode(c) ==
    /\ calls[c].pc = "decode"
    /\ LET out == Endpoint(calls[c].ep, calls[c].variant, calls[c].ret)
       IN calls' = [calls EXCEPT ![c].pc = IF out.panic THEN "panicked" ELSE "done",
                                 ![c].out = out]
    /\ UNCHANGED <<base, indexes>>

\* The caller has its result and error, and is free to call again.
Again(c) ==
    /\ calls[c].pc = "done"
    /\ calls' = [calls EXCEPT ![c] = Idle]
    /\ UNCHANGED <<base, indexes>>

\* One caller, calling any endpoint with any answer.
Next ==
    \E c \in {1} :
        \/ Call(c, Endpoints, Variants)
        \/ Get(c, Replies)
        \/ Unwrap(c, Minutes)
        \/ Decode(c)
        \/ Again(c)

Spec == Init /\ [][Next]_vars

(***************************************************************************)
(* Vocabulary of the properties.                                           *)
(***************************************************************************)
\* The result type each typed endpoint function declares.
ResultType(ep) ==
    CASE ep = "Assets" -> TSlice(Asset)
      [] ep = "AssetMarkets" -> DetailedAsset
      [] ep = "Pairs" -> TSlice(Pair)
      [] ep = "PairMarkets" -> PairMarket
      [] ep = "Exchanges" -> TSlice(GeneralExchange)
      [] ep = "Exchange" -> DetailedExchange
      [] ep = "Markets" -> TSlice(GeneralMarket)
      [] ep = "Market" -> DetailedMarket
      [] ep = "MarketPrice" -> TFloat
      [] ep = "MarketSummary" -> Summary
      [] ep = "Trades" -> TSlice(Trade)
      [] ep = "OrderBook" -> MarketOrderBook
      [] ep = "Ohlc" -> OHLC
      [] ep = "AggregratePrices" -> AggregratePrice
      [] ep = "AggregrateSummaries" -> AggregrateSummary

\* The call has come back to its caller, by a return or by a panic.
Finished(c) == calls[c].pc \in {"done", "panicked"}
Returned(c) == calls[c].pc = "done"

\* The network answered the call with a status and a body.
Answered(c) == Finished(c) /\ calls[c].reply.t = "http"

\* The result is nil (untyped variant) or the zero value of the declared result
\* type (typed variant).
NilOrZeroResult(c) ==
    calls[c].out.result =
        (IF calls[c].variant = "typed" THEN Zero(ResultType(calls[c].ep)) ELSE Nil)

\* The empty, non-nil map the untyped AssetMarkets starts from.
EmptyMapResult(c) ==
    /\ calls[c].variant = "untyped"
    /\ calls[c].ep = "AssetMarkets"
    /\ calls[c].out.result = GMap(NoFields)

\* No result: nil, zero or empty.
NoResult(c) == NilOrZeroResult(c) \/ EmptyMapResult(c)

\* The text of the message is not empty.
NonEmptyMessage(msg) == \E i \in DOMAIN msg : msg[i][2] # ""

IsRateLimitError(e) ==
    /\ e.t = "error"
    /\ e.kind = "errorString"
    /\ Len(e.msg) > 0
    /\ e.msg[1] = Lit("Too Many Requests. Allowance resets in ")
    /\ NonEmptyMessage(e.msg)

IsDecodeError(e) == e.t = "error" /\ e.kind = "decode" /\ NonEmptyMessage(e.msg)

\* An error made by errors.New whose message is exactly the string s.
IsErrorWithMessage(e, s) == e = [t |-> "error", kind |-> "errorString", msg |-> <<Lit(s)>>]

RateLimited(c) ==
    /\ Answered(c)
    /\ calls[c].reply.status = 429
    /\ calls[c].reply.body.t = "obj"

(***************************************************************************)
(* C1, as claimed: a 429 answer whose body is a JSON object yields, for    *)
(* every endpoint function, a rate-limit error with a non-empty message    *)
(* and a nil or zero-valued result, whatever the error field holds.        *)
(***************************************************************************)
C1_RateLimitNilOrZero ==
    \A c \in Callers :
        RateLimited(c) =>
            /\ Returned(c)
            /\ IsRateLimitError(calls[c].out.err)
            /\ NilOrZeroResult(c)

(***************************************************************************)
(* C1, amended: a 429 answer whose body is a JSON object yields, for every *)
(* endpoint function, a rate-limit error with a non-empty message and no   *)
(* result, whatever the error field holds: the result is nil or the zero   *)
(* value, except that the untyped AssetMarkets returns the empty non-nil   *)
(* map it allocated.                                                       *)
(***************************************************************************)
C1_RateLimit ==
    \A c \in Callers :
        RateLimited(c) =>
            /\ Returned(c)
            /\ IsRateLimitError(calls[c].out.err)
            /\ IF calls[c].variant = "untyped" /\ calls[c].ep = "AssetMarkets"
               THEN EmptyMapResult(c)
               ELSE NilOrZeroResult(c)

\* A 429 answer without an error field has been turned into a rate-limit error.
C1_Witness ==
    \E c \in Callers :
        /\ RateLimited(c)
        /\ "error" \notin DOMAIN calls[c].reply.body.v
        /\ Returned(c)
        /\ IsRateLimitError(calls[c].out.err)

ApiError(c) ==
    /\ Answered(c)
    /\ calls[c].reply.status \notin {200, 429}
    /\ calls[c].reply.body.t = "obj"
    /\ "error" \in DOMAIN calls[c].reply.body.v
    /\ calls[c].reply.body.v["error"].t = "str"

(***************************************************************************)
(* C2, as claimed: for every status other than 200 and 429, a body that is *)
(* a JSON object with a string error field S yields an error whose message *)
(* is exactly S and a nil or zero-valued result; result is ignored.        *)
(***************************************************************************)
C2_ApiErrorNilOrZero ==
    \A c \in Callers :
        ApiError(c) =>
            /\ Returned(c)
            /\ IsErrorWithMessage(calls[c].out.err, calls[c].reply.body.v["error"].v)
            /\ NilOrZeroResult(c)

(***************************************************************************)
(* C2, amended: for every status other than 200 and 429, a body that is a  *)
(* JSON object with a string error field S yields an error whose message   *)
(* is exactly S and no result (result is ignored): the result is nil or    *)
(* the zero value, except that the untyped AssetMarkets returns the empty  *)
(* non-nil map it allocated.                                               *)
(***************************************************************************)
C2_ApiError ==
    \A c \in Callers :
        ApiError(c) =>
            /\ Returned(c)
            /\ IsErrorWithMessage(calls[c].out.err, calls[c].reply.body.v["error"].v)
            /\ IF calls[c].variant = "untyped" /\ calls[c].ep = "AssetMarkets"
               THEN EmptyMapResult(c)
               ELSE NilOrZeroResult(c)

\* A 500 answer carrying both an error and a result has come back as the error.
C2_Witness ==
    \E c \in Callers :
        /\ ApiError(c)
        /\ calls[c].reply.status = 500
        /\ "result" \in DOMAIN calls[c].reply.body.v
        /\ Returned(c)
        /\ IsErrorWithMessage(calls[c].out.err, "foo")

(***************************************************************************)
(* C3: a body that is not JSON yields a decode error and no result (nil,   *)
(* zero or empty), whatever the status: never a rate-limit error, an API   *)
(* error, a result or a panic.                                             *)
(***************************************************************************)
C3_MalformedBody ==
    \A c \in Callers :
        (Answered(c) /\ calls[c].reply.body.t = "malformed") =>
            /\ Returned(c)
            /\ IsDecodeError(calls[c].out.err)
            /\ NoResult(c)

\* A malformed body under status 429 has come back as a decode error.
C3_Witness ==
    \E c \in Callers :
        /\ Answered(c)
        /\ calls[c].reply.body.t = "malformed"
        /\ calls[c].reply.status = 429
        /\ Returned(c)
        /\ IsDecodeError(calls[c].out.err)

(***************************************************************************)
(* C4: a body that is JSON but no object (an array, a string, a number, a  *)
(* boolean, null) comes back to the caller as a decode error with no       *)
(* result, whatever the status; the call does not panic.                   *)
(***************************************************************************)
C4_NonObjectBody ==
    \A c \in Callers :
        (Answered(c) /\ calls[c].reply.body.t \in {"null", "jbool", "num", "str", "arr"}) =>
            /\ Returned(c)
            /\ IsDecodeError(calls[c].out.err)
            /\ NoResult(c)

(***************************************************************************)
(* C5: for a status other than 200 and 429, a JSON object without an error *)
(* field, or with one that is no string, comes back to the caller as an    *)
(* error with a (fallback) message and no result; the call does not panic. *)
(***************************************************************************)
C5_ErrorFieldFallback ==
    \A c \in Callers :
        ( /\ Answered(c)
          /\ calls[c].reply.status \notin {200, 429}
          /\ calls[c].reply.body.t = "obj"
          /\ \/ "error" \notin DOMAIN calls[c].reply.body.v
             \/ calls[c].reply.body.v["error"].t # "str" ) =>
            /\ Returned(c)
            /\ calls[c].out.err.t = "error"
            /\ calls[c].out.err.kind = "errorString"
            /\ NonEmptyMessage(calls[c].out.err.msg)
            /\ NoResult(c)

\* The result field of the envelope the call was answered with (null when the
\* envelope has none).
PayloadOf(c) ==
    IF "result" \in DOMAIN calls[c].reply.body.v
    THEN calls[c].reply.body.v["result"]
    ELSE JNull

\* The type the payload is decoded into: the result type, but for MarketPrice,
\* whose payload is the object holding the price.
DecodeTarget(ep) == IF ep = "MarketPrice" THEN TMap(TFloat) ELSE ResultType(ep)

\* The JSON kind of the payload each endpoint documents.
ExpectedKind(ep) == IF DecodeTarget(ep).k = "slice" THEN "arr" ELSE "obj"

\* The call was answered 200 with an envelope whose result decodes without a
\* failure: into the endpoint's type (typed variant), into the slice or map
\* the endpoint returns (untyped variant).
FullyDecoded(c) ==
    /\ Answered(c)
    /\ calls[c].reply.status = 200
    /\ calls[c].reply.body.t = "obj"
    /\ IF calls[c].variant = "typed"
       THEN ~Unmarshal(DecodeTarget(calls[c].ep), PayloadOf(c)).err
       ELSE PayloadOf(c).t \in {"null", ExpectedKind(calls[c].ep)}

(***************************************************************************)
(* C6: there is no partial success.  Every call that returns returns       *)
(* either a fully decoded result with a nil error, or no result (nil, zero *)
(* or empty) with a non-nil error; in particular never a nil error beside  *)
(* a result that failed to decode, and never an error beside a partly      *)
(* filled result.                                                          *)
(***************************************************************************)
C6_NoPartialSuccess ==
    \A c \in Callers :
        Returned(c) =>
            \/ calls[c].out.err = Nil /\ FullyDecoded(c)
            \/ calls[c].out.err # Nil /\ NoResult(c)

(***************************************************************************)
(* C7: a 200 answer whose result has the wrong JSON shape for the endpoint *)
(* (an array for an object, an object for an array, a scalar) comes back   *)
(* to the caller as a decode error: not as a zero value with a nil error,  *)
(* and not as a panic.                                                     *)
(***************************************************************************)
C7_WrongShape ==
    \A c \in Callers :
        ( /\ Answered(c)
          /\ calls[c].reply.status = 200
          /\ calls[c].reply.body.t = "obj"
          /\ PayloadOf(c).t \notin {"null", ExpectedKind(calls[c].ep)} ) =>
            /\ Returned(c)
            /\ IsDecodeError(calls[c].out.err)

\* The Go values the documented payloads stand for.
AssetMarketGo ==
    GStruct([exchange |-> GString("gdax"), pair |-> GString("btcusd"),
             active |-> GBool(TRUE), route |-> GString("/markets/gdax/btcusd")])
PairDataGo(sym) ==
    GStruct([symbol |-> GString(sym), name |-> GString("name of " \o sym),
             isFiat |-> GBool(FALSE), route |-> GString("/assets/" \o sym)])
SummaryGo ==
    GStruct([price |-> GStruct([last |-> GFloatHalf(6321), high |-> GFloat(6400),
                                low |-> GFloat(6200),
                                change |-> GStruct([percentage |-> GFloatHalf(0),
                                                    absolute |-> GFloat(30)])]),
             volume |-> GFloatHalf(1200)])

Documented(ep) ==
    CASE ep = "Assets" ->
            GSlice(<<GStruct([symbol |-> GString("btc"), name |-> GString("Bitcoin"),
                              fiat |-> GBool(FALSE), route |-> GString("/assets/btc")]),
                     GStruct([symbol |-> GString("usd"), name |-> GString("Dollar"),
                              fiat |-> GBool(TRUE), route |-> GString("/assets/usd")])>>)
      [] ep = "AssetMarkets" ->
            GStruct([id |-> GInt(60), symbol |-> GString("btc"), name |-> GString("Bitcoin"),
                     fiat |-> GBool(FALSE),
                     markets |-> GStruct([base |-> GSlice(<<AssetMarketGo>>),
                                          quote |-> GSlice(<<>>)])])
      [] ep = "Pairs" ->
            GSlice(<<GStruct([symbol |-> GString("ethbtc"), id |-> GInt(7),
                              base |-> PairDataGo("eth"), quote |-> PairDataGo("btc"),
                              route |-> GString("/pairs/ethbtc")])>>)
      [] ep = "PairMarkets" ->
            GStruct([symbol |-> GString("ethbtc"), id |-> GInt(7),
                     base |-> PairDataGo("eth"), quote |-> PairDataGo("btc"),
                     route |-> GString("/pairs/ethbtc"),
                     markets |-> GSlice(<<AssetMarketGo>>)])
      [] ep = "Exchanges" ->
            GSlice(<<GStruct([symbol |-> GString("gdax"), name |-> GString("GDAX"),
                              active |-> GBool(TRUE),
                              route |-> GString("/exchanges/gdax")])>>)
      [] ep = "Exchange" ->
            GStruct([id |-> GInt(3), name |-> GString("GDAX"), active |-> GBool(TRUE),
                     routes |-> GStruct([markets |-> GString("/markets/gdax")])])
      [] ep = "Markets" -> GSlice(<<AssetMarketGo>>)
      [] ep = "Market" ->
            GStruct([exchange |-> GString("gdax"), pair |-> GString("ethbtc"),
                     active |-> GBool(TRUE),
                     routes |-> GStruct([price |-> GString("/price"),
                                         summary |-> GString("/summary"),
                                         orderbook |-> GString("/orderbook"),
                                         trades |-> GString("/trades"),
                                         ohlc |-> GString("/ohlc")])])
      [] ep = "MarketPrice" -> GFloatHalf(6321)
      [] ep = "MarketSummary" -> SummaryGo
      [] ep = "Trades" ->
            GSlice(<<GSlice(<<GFloat(1), GFloat(1500000000), GFloat(6300), GFloatHalf(0)>>),
                     GSlice(<<GFloat(2), GFloat(1500000001), GFloatHalf(6300), GFloat(2)>>)>>)
      [] ep = "OrderBook" ->
            GStruct([asks |-> GSlice(<<GSlice(<<GFloat(6325), GFloatHalf(1)>>),
                                       GSlice(<<GFloat(6326), GFloat(4)>>)>>),
                     bids |-> GSlice(<<GSlice(<<GFloat(6310), GFloatHalf(0)>>)>>)])
      [] ep = "Ohlc" ->
            GMap("60" :> GSlice(<<GSlice(<<GFloat(1500000000), GFloat(10), GFloat(12),
                                           GFloat(9), GFloat(11), GFloatHalf(100)>>)>>)
                 @@ "180" :> GSlice(<<>>))
      [] ep = "AggregratePrices" ->
            GMap("gdax:ethbtc" :> GFloatHalf(6321) @@ "kraken:btcusd" :> GFloat(7))
      [] ep = "AggregrateSummaries" -> GMap("gdax:ethbtc" :> SummaryGo)

\* The call was answered 200 with the envelope {"result": P}, P the payload
\* documented for its endpoint.
WellFormed(c) ==
    /\ Answered(c)
    /\ calls[c].reply.status = 200
    /\ calls[c].reply.body = JObj([result |-> Sample(calls[c].ep)])

\* The call was answered 200 with the envelope {"result": {"price": x}}.
PriceEnvelope(c) ==
    /\ Answered(c)
    /\ calls[c].reply.status = 200
    /\ calls[c].reply.body \in {JObj([result |-> p]) : p \in PricePayloads}

Path(ep, args) ==
    CASE ep = "Assets" -> "assets"
      [] ep = "AssetMarkets" -> "assets/" \o args[1]
      [] ep = "Pairs" -> "pairs"
      [] ep = "PairMarkets" -> "pairs/" \o args[1]
      [] ep = "Exchanges" -> "exchanges"
      [] ep = "Exchange" -> "exchanges/" \o args[1]
      [] ep = "Markets" -> "markets"
      [] ep = "Market" -> "markets/" \o args[1] \o "/" \o args[2]
      [] ep = "MarketPrice" -> "markets/" \o args[1] \o "/" \o args[2] \o "/price"
      [] ep = "MarketSummary" -> "markets/" \o args[1] \o "/" \o args[2] \o "/summary"
      [] ep = "Trades" -> "markets/" \o args[1] \o "/" \o args[2] \o "/trades"
      [] ep = "OrderBook" -> "markets/" \o args[1] \o "/" \o args[2] \o "/orderbook"
      [] ep = "Ohlc" -> "markets/" \o args[1] \o "/" \o args[2] \o "/ohlc"
      [] ep = "AggregratePrices" -> "markets/prices"
      [] ep = "AggregrateSummaries" -> "markets/summaries"

(***************************************************************************)
(* C9: every endpoint function asks for exactly the base URL followed by   *)
(* its path with the caller's arguments put in as they are and in the      *)
(* order declared (exchange, then pair), and no two endpoint functions     *)
(* read the same template of the route table.                              *)
(***************************************************************************)
C9_URL ==
    /\ \A c \in Callers :
          calls[c].pc # "idle" =>
              calls[c].url = "https://api.cryptowat.ch/" \o Path(calls[c].ep, calls[c].args)
    /\ \A e1, e2 \in Endpoints :
          e1 # e2 => indexes[IndexKey(e1)] # indexes[IndexKey(e2)]

\* Market("gdax", "ethbtc") has asked for its URL.
C9_Witness ==
    \E c \in Callers :
        /\ calls[c].pc = "unwrap"
        /\ calls[c].ep = "Market"
        /\ calls[c].args = <<"gdax", "ethbtc">>
        /\ calls[c].url = "https://api.cryptowat.ch/markets/gdax/ethbtc"

(***************************************************************************)
(* Concurrent callers: every caller runs its own call, their steps         *)
(* interleaved in any order.                                               *)
(***************************************************************************)
ConcEndpoints == {"PairMarkets"}
ConcMinutes == {0, 59}
ConcReplies ==
    {NetError,
     Response(200, JObj([result |-> Sample("PairMarkets")])),
     Response(200, JObj([result |-> Sample("Pairs")])),
     Response(429, JObj([error |-> JStr("foo")])),
     Response(500, JObj([error |-> JStr("foo")]))}

NextConc ==
    \E c \in Callers :
        \/ Call(c, ConcEndpoints, Variants)
        \/ Get(c, ConcReplies)
        \/ Unwrap(c, ConcMinutes)
        \/ Decode(c)
        \/ Again(c)

SpecConc == Init /\ [][NextConc]_vars

\* What a call of ep returns when it runs alone and is answered with reply.
Alone(ep, variant, reply, minute) == Endpoint(ep, variant, Request(variant, reply, minute))

ContainsNumber(msg, v) == \E i \in DOMAIN msg : PieceText(msg[i]) = ToString(v)

(***************************************************************************)
(* C11: on a 429 answer the message of the rate-limit error states the     *)
(* minutes left until the reset as the number 60 - m, m in 0 .. 59 being   *)
(* the minute of the hour the call read from the clock: the message        *)
(* contains the decimal representation of 60 - m, a value in 1 .. 60.      *)
(***************************************************************************)
C11_RemainingMinutes ==
    \A c \in Callers :
        RateLimited(c) /\ Returned(c) =>
            \E m \in Minutes :
                /\ calls[c].out =
                       Alone(calls[c].ep, calls[c].variant, calls[c].reply, m)
                /\ 60 - m \in 1 .. 60
                /\ IsRateLimitError(calls[c].out.err)
                /\ ContainsNumber(calls[c].out.err.msg, 60 - m)

\* What the message holds instead: the one character whose code point is
\* 60 - m, here "<" for a call on the hour and the digit "2" at ten past.
C11_CharacterNotNumber ==
    \A c \in Callers :
        RateLimited(c) /\ Returned(c) =>
            \E m \in Minutes :
                /\ calls[c].out =
                       Alone(calls[c].ep, calls[c].variant, calls[c].reply, m)
                /\ MessageText(calls[c].out.err.msg) =
                       "Too Many Requests. Allowance resets in "
                           \o RuneChars[60 - m] \o " minutes."
                /\ ~ContainsNumber(calls[c].out.err.msg, 60 - m)

C11_OnTheHour ==
    \E c \in Callers :
        /\ RateLimited(c) /\ Returned(c)
        /\ MessageText(calls[c].out.err.msg) =
               "Too Many Requests. Allowance resets in < minutes."

C11_TenPast ==
    \E c \in Callers :
        /\ RateLimited(c) /\ Returned(c)
        /\ MessageText(calls[c].out.err.msg) =
               "Too Many Requests. Allowance resets in 2 minutes."

(***************************************************************************)
(* A 200 answer without a result.                                          *)
(***************************************************************************)
\* The call was answered 200 with a JSON object that has no result field, or
\* whose result field is null.
MissingResult(c) ==
    /\ Answered(c)
    /\ calls[c].reply.status = 200
    /\ calls[c].reply.body.t = "obj"
    /\ \/ "result" \notin DOMAIN calls[c].reply.body.v
       \/ calls[c].reply.body.v["result"] = JNull

\* What the typed variant makes of a missing result: request hands the
\* endpoint function the bytes of JSON null, not nil, and the function returns
\* the zero value of its result type; for MarketPrice that is what a real
\* price of 0 returns as well.
TypedZeroOfNull(c) ==
    /\ calls[c].ret.res = GBytes(JNull)
    /\ calls[c].out.result = Zero(ResultType(calls[c].ep))
    /\ calls[c].ep = "MarketPrice" =>
          calls[c].out =
              Alone("MarketPrice", "typed",
                    Response(200, JObj([result |-> JObj([price |-> JNum(0)])])), 0)

(***************************************************************************)
(* C12, as claimed: on a 200 answer whose JSON object has no result field, *)
(* or a null one, every typed endpoint function returns the zero value of  *)
(* its result type with a nil error (request re-serialises the absent      *)
(* result as JSON null, which is non-nil bytes and decodes without error), *)
(* the same a real zero-valued result returns; every untyped endpoint      *)
(* function returns a nil result with a nil error.                         *)
(***************************************************************************)
C12_MissingResultNil ==
    \A c \in Callers :
        MissingResult(c) =>
            /\ Returned(c)
            /\ calls[c].out.err = Nil
            /\ IF calls[c].variant = "typed"
               THEN TypedZeroOfNull(c)
               ELSE /\ calls[c].ret.res = Nil
                    /\ calls[c].out.result = Nil

(***************************************************************************)
(* C12, amended: as claimed for the typed variant; every untyped endpoint  *)
(* function returns a nil result with a nil error, except the untyped      *)
(* AssetMarkets, which returns the empty, non-nil map it starts from.      *)
(***************************************************************************)
C12_MissingResult ==
    \A c \in Callers :
        MissingResult(c) =>
            /\ Returned(c)
            /\ calls[c].out.err = Nil
            /\ IF calls[c].variant = "typed"
               THEN TypedZeroOfNull(c)
               ELSE /\ calls[c].ret.res = Nil
                    /\ calls[c].out.result =
                           (IF calls[c].ep = "AssetMarkets" THEN GMap(NoFields) ELSE Nil)

\* The typed MarketSummary, answered 200 with {}, has returned the zero
\* Summary and a nil error.
C12_Witness ==
    \E c \in Callers :
        /\ MissingResult(c)
        /\ Returned(c)
        /\ calls[c].variant = "typed"
        /\ calls[c].ep = "MarketSummary"
        /\ calls[c].reply.body = JObj(NoFields)
        /\ calls[c].ret = Return(GBytes(JNull), Nil)
        /\ calls[c].out = Outcome(Zero(Summary), Nil)

\* The typed MarketPrice, answered 200 with {"result": null}, has returned 0
\* and a nil error.
C12_PriceOfNull ==
    \E c \in Callers :
        /\ MissingResult(c)
        /\ Returned(c)
        /\ calls[c].variant = "typed"
        /\ calls[c].ep = "MarketPrice"
        /\ calls[c].reply.body = JObj([result |-> JNull])
        /\ calls[c].out = Outcome(GFloat(0), Nil)

\* The untyped AssetMarkets, answered 200 with {}, has returned its empty map.
C12_EmptyMap ==
    \E c \in Callers :
        /\ MissingResult(c)
        /\ Returned(c)
        /\ EmptyMapResult(c)
        /\ calls[c].out.err = Nil

====
